---- MODULE Spec2Model ----
(***************************************************************************)
(* Model of backend/main.py: the call-with-retry primitive of the AI      *)
(* client, the two AI helpers built on it, the in-memory project table     *)
(* with its whole-snapshot JSON persistence, and the request handlers.     *)
(*                                                                         *)
(* Three specifications share the definitions:                             *)
(*   SpecRetry  runs _call_gemini_api_with_retry one loop iteration at a   *)
(*              time against every sequence of service outcomes;           *)
(*   Spec       runs the request handlers.  A handler is an `async def`    *)
(*              without any await, so it runs to completion on the event   *)
(*              loop and is one action; the AI call it makes is the fold   *)
(*              of the same loop iteration over a sequence of outcomes;    *)
(*   SpecLoop   runs requests submitted together as coroutines on the      *)
(*              event loop, a handler body a few statements at a time.     *)
(***************************************************************************)
EXTENDS Integers, Sequences, FiniteSets, TLC

VARIABLES
    call,         \* the activation of _call_gemini_api_with_retry (SpecRetry)
    ai,           \* the activation of the AI helper that made the call (SpecRetry)
    projects_db,  \* the global dict project id -> project
    disk,         \* the content of DB_FILE
    uuid,         \* how many uuid4 values have been drawn
    resp,         \* the outcome of the last request (or restart)
    served,       \* how many requests have been handled
    acked,        \* history: projects_db when a mutating request last returned 200
    deleted,      \* history: ids whose delete_project returned 200
    tasks,        \* the requests submitted to the event loop, each a coroutine (SpecLoop)
    running       \* the coroutine the event loop is executing, 0 when none (SpecLoop)

vars == <<call, ai, projects_db, disk, uuid, resp, served, acked, deleted, tasks, running>>

loopVars == <<tasks, running>>

storeVars == <<projects_db, disk, uuid, resp, served, acked, deleted, tasks, running>>

----------------------------------------------------------------------------
(* Bounds of the model *)

\* requests handled in one run
MaxRequests == 3
\* requests submitted together to the event loop
MaxTasks == 2
\* uuid4 values that may be drawn (project ids and scope ids share them)
MaxIds == 3
\* rows of an uploaded table
MaxRows == 2
\* unit prices range over 0..MaxPrice
MaxPrice == 1

(* Program constants *)

\* retries = 3
retries == 3
\* backoff_factor = 1
backoff_start == 1

----------------------------------------------------------------------------
(* Generic dict helpers (Python dict item assignment, del, key test) *)

Put(d, k, v) == [x \in (DOMAIN d) \cup {k} |-> IF x = k THEN v ELSE d[x]]

Del(d, k) == [x \in (DOMAIN d) \ {k} |-> d[x]]

Has(d, k) == k \in DOMAIN d

EmptyDict == [x \in {} |-> 0]

----------------------------------------------------------------------------
(* The remote service as seen by one requests.post *)

Statuses == {200, 404, 503}

\* what one requests.post can do: answer with a status, or raise RequestException
Outcomes == [kind : {"response"}, status : Statuses] \cup [kind : {"fault"}, status : {0}]

Fault == [kind |-> "fault", status |-> 0]

Answer(s) == [kind |-> "response", status |-> s]

\* the local `response` before any assignment
NoResponse == [status |-> 0, seq |-> 0]

\* locals of _call_gemini_api_with_retry on entry, plus the history of the run
RetryStart ==
    [pc |-> "loop", attempt |-> 0, backoff_factor |-> backoff_start,
     response |-> NoResponse, calls |-> 0, sleeps |-> <<>>, history |-> <<>>]

RetryIdle == [RetryStart EXCEPT !.pc = "idle"]

\* SleepAndContinue with a loop of one iteration too many (range(retries + 1))
SleepAndContinueOneMore(r) ==
    [r EXCEPT !.sleeps = Append(@, r.backoff_factor),
              !.backoff_factor = 2 * @,
              !.attempt = @ + 1,
              !.pc = IF r.attempt + 1 < retries + 1 THEN "loop" ELSE "returned"]

\* SleepAndContinue without `backoff_factor *= 2`
SleepAndContinueNoDoubling(r) ==
    [r EXCEPT !.sleeps = Append(@, r.backoff_factor),
              !.attempt = @ + 1,
              !.pc = IF r.attempt + 1 < retries THEN "loop" ELSE "returned"]

\* time.sleep(backoff_factor); backoff_factor *= 2; then the for statement advances
\* and, when the range is exhausted, falls through to `return response`
SleepAndContinue(r) ==
    [r EXCEPT !.sleeps = Append(@, r.backoff_factor),
              !.backoff_factor = 2 * @,
              !.attempt = @ + 1,
              !.pc = IF r.attempt + 1 < retries THEN "loop" ELSE "returned"]

\* RetryStep that gives up on a fault one attempt early (attempt < retries - 2)
RetryStepRaisesEarly(r, o) ==
    LET posted == [r EXCEPT !.calls = @ + 1, !.history = Append(@, o)]
    IN  IF o.kind = "fault"
        THEN IF r.attempt < retries - 2
             THEN SleepAndContinue(posted)
             ELSE [posted EXCEPT !.pc = "raised"]
        ELSE LET got == [posted EXCEPT !.response =
                              [status |-> o.status, seq |-> posted.calls]]
             IN  IF o.status >= 500
                 THEN SleepAndContinue(got)
                 ELSE [got EXCEPT !.pc = "returned"]

\* one iteration of `for attempt in range(retries)` given what requests.post did
RetryStep(r, o) ==
    LET posted == [r EXCEPT !.calls = @ + 1, !.history = Append(@, o)]
    IN  IF o.kind = "fault"
        THEN IF r.attempt < retries - 1
             THEN SleepAndContinue(posted)
             ELSE [posted EXCEPT !.pc = "raised"]
        ELSE LET got == [posted EXCEPT !.response =
                              [status |-> o.status, seq |-> posted.calls]]
             IN  IF o.status >= 500
                 THEN SleepAndContinue(got)
                 ELSE [got EXCEPT !.pc = "returned"]

\* the whole call against the outcome sequence outs (outcome k answers the k-th post)
RECURSIVE RetryFrom(_, _)
RetryFrom(r, outs) ==
    IF r.pc # "loop" \/ outs = <<>> THEN r
    ELSE RetryFrom(RetryStep(r, Head(outs)), Tail(outs))

_call_gemini_api_with_retry(outs) == RetryFrom(RetryStart, outs)

OutcomeSeqs == [1..retries -> Outcomes]

----------------------------------------------------------------------------
(* The AI helpers *)

\* what a 200 reply can carry
Bodies == {"schema", "other_shape", "data_and_error", "not_json", "bad_envelope"}

\* a reply of the schema the prompt of get_ai_spec_summary documents
SpecPayload ==
    [project_name |-> "Acme Tower", spec_section |-> "07 41 13", addendum |-> "1",
     material_systems |-> <<[system_name |-> "Metal Roof Panels",
                             attributes |-> [Material |-> "24 gauge steel"]]>>]

\* a reply of the schema the prompt of get_ai_estimate_analysis documents
AnalysisPayload ==
    [overall_summary |-> "bid", cost_breakdown |-> <<[category |-> "Panels", total_cost |-> 2]>>,
     grand_total |-> 2, potential_risks |-> <<"lead times">>]

\* valid JSON that is not of the documented schema
OtherPayload == [answer |-> "I cannot help with that"]

\* json.loads(response.json()['candidates'][0]['content']['parts'][0]['text'])
\* for a 200 reply: the parsed value, or the exception the expression raises
ParseReply(body, payload) ==
    CASE body = "schema"         -> [exc |-> "none", value |-> payload]
      [] body = "other_shape"    -> [exc |-> "none", value |-> OtherPayload]
      [] body = "data_and_error" -> [exc |-> "none", value |-> Put(payload, "error", "partial")]
      [] body = "not_json"       -> [exc |-> "JSONDecodeError", value |-> EmptyDict]
      [] OTHER                   -> [exc |-> "KeyError", value |-> EmptyDict]

ModelError(status) ==
    [error |-> "The AI model returned an error (Code: " \o ToString(status) \o ")."]

\* the body of the try block of both helpers, r being the call as it ended: what
\* the block returns, or what it raises
AiTry(r, body, payload) ==
    IF r.pc = "raised" THEN [exc |-> "RequestException", value |-> EmptyDict]
    ELSE IF r.response.status # 200
         THEN [exc |-> "none", value |-> ModelError(r.response.status)]
         ELSE ParseReply(body, payload)

\* Caught for `except (ValueError, KeyError)`: a transport fault escapes
CaughtParseOnly(exc) == exc \in {"JSONDecodeError", "KeyError"}

\* `except Exception`: every exception of the try block is caught
Caught(exc) == exc # "none"

\* the try/except of both helpers: payload is the schema the prompt asks for,
\* failure the message of the except branch; exc is what escapes to the caller
\* and posts the number of requests.post made
AiHelper(r, body, payload, failure) ==
    LET t == AiTry(r, body, payload)
        out == IF t.exc = "none" THEN t
               ELSE IF Caught(t.exc) THEN [exc |-> "none", value |-> [error |-> failure]]
               ELSE t
    IN  [exc |-> out.exc, value |-> out.value, posts |-> r.calls]

get_ai_spec_summary(r, body) ==
    AiHelper(r, body, SpecPayload,
             "Failed to get a valid structured summary from the AI model.")

get_ai_estimate_analysis(r, body) ==
    AiHelper(r, body, AnalysisPayload,
             "Failed to get a valid analysis from the AI model.")

\* every way a call of get_ai_spec_summary can go
SpecRuns ==
    { get_ai_spec_summary(_call_gemini_api_with_retry(outs), body) :
        outs \in OutcomeSeqs, body \in Bodies }

\* every way a call of get_ai_estimate_analysis can go
AnalysisRuns ==
    { get_ai_estimate_analysis(_call_gemini_api_with_retry(outs), body) :
        outs \in OutcomeSeqs, body \in Bodies }

----------------------------------------------------------------------------
(* SpecRetry: one call of an AI helper, one loop iteration per step *)

AiIdle == [fn |-> "none", pc |-> "idle", body |-> "none", exc |-> "none", value |-> EmptyDict]

HelperCall ==
    /\ ai.pc = "idle"
    /\ \E fn \in {"get_ai_spec_summary", "get_ai_estimate_analysis"} :
           ai' = [AiIdle EXCEPT !.fn = fn, !.pc = "calling"]
    /\ call' = RetryStart
    /\ UNCHANGED storeVars

RetryAttempt ==
    /\ call.pc = "loop"
    /\ \E o \in Outcomes : call' = RetryStep(call, o)
    /\ UNCHANGED <<ai, storeVars>>

HelperReturn ==
    /\ ai.pc = "calling"
    /\ call.pc \in {"returned", "raised"}
    /\ \E body \in Bodies :
           LET res == IF ai.fn = "get_ai_spec_summary"
                      THEN get_ai_spec_summary(call, body)
                      ELSE get_ai_estimate_analysis(call, body)
           IN  ai' = [ai EXCEPT !.pc = "done", !.body = body, !.exc = res.exc,
                                  !.value = res.value]
    /\ UNCHANGED <<call, storeVars>>

HelperExit ==
    /\ ai.pc = "done"
    /\ ai' = AiIdle
    /\ call' = RetryIdle
    /\ UNCHANGED storeVars

----------------------------------------------------------------------------
(* Uploaded tables and line items *)

NaN == "<NaN>"

\* a cell json.dump cannot encode (an Excel time cell is read as datetime.time)
TimeCell == "<datetime.time>"

Num(n) == <<"num", n>>

\* a Quantity cell holding text
TextQty == <<"text", 0>>

NaNQty == <<"nan", 0>>

IsNum(q) == q[1] = "num"

Row(d, q, s) == [Description |-> d, Quantity |-> q, Size |-> s]

\* the rows an upload is built from
Rows ==
    { Row("a", Num(2), "LF"), Row("b", NaNQty, NaN), Row(NaN, Num(2), "LF"),
      Row("b", Num(0 - 1), "LF"), Row("a", TextQty, "LF"), Row("a", Num(2), TimeCell) }

required == {"Description", "Quantity", "Size"}

\* col.strip()
Strip(col) == IF col = " Size " THEN "Size" ELSE col

\* the header rows an upload can have
Headers ==
    { required, {"Description", "Quantity", " Size "}, {"Description", "Quantity"},
      {"Description"} }

RowSeqs == UNION { [1..n -> Rows] : n \in 0..MaxRows }

\* what pd.read_excel yields: no table at all, or a header and rows
Tables ==
    [readable : {TRUE}, columns : {required}, rows : RowSeqs]
        \cup [readable : {TRUE}, columns : Headers, rows : { <<Row("a", Num(2), "LF")>> }]
        \cup [readable : {FALSE}, columns : {{}}, rows : {<<>>}]

\* df.fillna({'Description': '', 'Size': '', 'Quantity': 0})
FillNa(row) ==
    [Description |-> IF row.Description = NaN THEN "" ELSE row.Description,
     Quantity |-> IF row.Quantity = NaNQty THEN Num(0) ELSE row.Quantity,
     Size |-> IF row.Size = NaN THEN "" ELSE row.Size]

\* df[df['Description'] != '']
RECURSIVE DropEmpty(_)
DropEmpty(rows) ==
    IF rows = <<>> THEN <<>>
    ELSE IF Head(rows).Description # "" THEN <<Head(rows)>> \o DropEmpty(Tail(rows))
    ELSE DropEmpty(Tail(rows))

\* df.rename(columns={'Size': 'UOM'}) and one record of df.to_dict(orient='records')
ToRecord(row) == [Description |-> row.Description, Quantity |-> row.Quantity, UOM |-> row.Size]

\* lines 245-250: the line items made of the rows of a table
LineItems(rows) ==
    LET filled == [i \in 1..Len(rows) |-> FillNa(rows[i])]
        kept == DropEmpty(filled)
    IN  [i \in 1..Len(kept) |-> ToRecord(kept[i])]

----------------------------------------------------------------------------
(* The project table and its snapshot *)

Missing == [kind |-> "missing", data |-> EmptyDict]

\* DB_FILE holding the beginning of a document only, because json.dump raised
\* half way: json.load raises JSONDecodeError on it
Partial == [kind |-> "partial", data |-> EmptyDict]

\* DB_FILE truncated by open(DB_FILE, "w") or partly written when the process died:
\* json.load raises JSONDecodeError on it
TornFile == [kind |-> "torn", data |-> EmptyDict]

Json(db) == [kind |-> "json", data |-> db]

AllItems(db) ==
    UNION { UNION { { db[p].scopes[i].estimate_data[j] :
                        j \in 1..Len(db[p].scopes[i].estimate_data) } :
                    i \in 1..Len(db[p].scopes) } : p \in DOMAIN db }

\* json.dump raises TypeError on a value that is no str, number, list or dict
Serializable(db) == \A item \in AllItems(db) : item.UOM # TimeCell

\* DB_FILE after save_db ran to its end: open(DB_FILE, "w") truncates the file and
\* json.dump writes it piece by piece, so an exception half way leaves a torn file
save_db(db) == IF Serializable(db) THEN Json(db) ELSE Partial

\* projects_db after load_db, current being its value before
load_db(file, current) ==
    CASE file.kind = "missing" -> current
      [] file.kind = "json"    -> file.data
      [] OTHER                 -> EmptyDict

\* find_scope: the position of the scope, or the 404 it raises
find_scope(db, project_id, scope_id) ==
    IF ~Has(db, project_id)
    THEN [found |-> FALSE, i |-> 0, detail |-> "Project not found"]
    ELSE LET scopes == db[project_id].scopes
             hits == { i \in 1..Len(scopes) : scopes[i].scope_id = scope_id }
         IN  IF hits = {}
             THEN [found |-> FALSE, i |-> 0, detail |-> "Scope not found"]
             ELSE [found |-> TRUE, i |-> CHOOSE i \in hits : \A j \in hits : i <= j,
                   detail |-> ""]

\* get_projects
get_projects(db) == { [id |-> p, project_name |-> db[p].project_name] : p \in DOMAIN db }

\* get_project_details: 200 with the project, or 404
get_project_details(db, project_id) ==
    IF Has(db, project_id) THEN [code |-> 200, detail |-> ""]
    ELSE [code |-> 404, detail |-> "Project not found"]

\* what a handler that does not use the AI client did with it
NoClient == [text |-> "none", posts |-> 0, returned |-> EmptyDict]

\* what a handler did: the table it leaves in memory, whether it reached save_db,
\* the response it sends when save_db returns, how many uuid4 it drew, and its use
\* of the AI client (the document text it had, the requests.post made on its
\* behalf, what the helper returned)
Outcome(db, saves, code, detail, drew) ==
    [db |-> db, saves |-> saves, code |-> code, detail |-> detail, drew |-> drew,
     client |-> NoClient]

\* the handler called an AI helper and the call went as run
Called(text, run) == [text |-> text, posts |-> run.posts, returned |-> run.value]

Refused(db, code, detail) == Outcome(db, FALSE, code, detail, 0)

WithScope(db, project_id, i, scope) ==
    [db EXCEPT ![project_id].scopes[i] = scope]

----------------------------------------------------------------------------
(* The handlers, as functions of the table and the request *)

create_project(db, project_id, project_name) ==
    Outcome(Put(db, project_id,
                [id |-> project_id, project_name |-> project_name, scopes |-> <<>>]),
            TRUE, 200, "", 1)

\* what pypdf makes of the upload: PdfReader or extract_text raises, or the pages'
\* text joined is "", is white space only, or has something to read
Pdfs == {"unreadable", "empty", "whitespace", "text"}

\* `if text:`, which white space passes
HasTextUnstripped(pdf) == pdf \in {"whitespace", "text"}

\* `if text.strip():`
HasText(pdf) == pdf = "text"

\* run: how the call of get_ai_spec_summary goes, if it is made
add_scope_to_project(db, project_id, scope_id, pdf, run) ==
    IF ~Has(db, project_id) THEN Refused(db, 404, "Project not found")
    ELSE LET ai_summary ==
                 CASE pdf = "unreadable" -> [error |-> "Failed to read PDF"]
                   [] ~HasText(pdf)      -> [error |-> "Could not process spec."]
                   [] run.exc # "none"   -> [error |-> "Failed to read PDF"]
                   [] OTHER              -> run.value
             new_scope ==
                 [scope_id |-> scope_id, scope_of_work |-> "roofing",
                  spec_filename |-> "spec.pdf", ai_summary |-> ai_summary,
                  estimate_data |-> <<>>, estimate_analysis |-> EmptyDict]
             client == IF pdf # "unreadable" /\ HasText(pdf) THEN Called(pdf, run)
                       ELSE [NoClient EXCEPT !.text = pdf]
         IN  [Outcome([db EXCEPT ![project_id].scopes = Append(@, new_scope)],
                      TRUE, 200, "", 1) EXCEPT !.client = client]

\* delete_project that forgets save_db
delete_projectUnsaved(db, project_id) ==
    IF ~Has(db, project_id) THEN Refused(db, 404, "Project not found")
    ELSE Outcome(Del(db, project_id), FALSE, 200, "", 0)

delete_project(db, project_id) ==
    IF ~Has(db, project_id) THEN Refused(db, 404, "Project not found")
    ELSE Outcome(Del(db, project_id), TRUE, 200, "", 0)

\* ', '.join(names)
RECURSIVE Join(_)
Join(names) ==
    IF names = <<>> THEN ""
    ELSE IF Len(names) = 1 THEN Head(names)
    ELSE Head(names) \o ", " \o Join(Tail(names))

\* f"Missing columns: {', '.join([c for c in required if c not in df.columns])}"
MissingColumns(columns) ==
    "Missing columns: "
        \o Join(SelectSeq(<<"Description", "Quantity", "Size">>, LAMBDA c : c \notin columns))

\* upload_estimate that extends the line items instead of replacing them
upload_estimateAppends(db, project_id, scope_id, table) ==
    LET f == find_scope(db, project_id, scope_id)
        columns == { Strip(col) : col \in table.columns }
    IN  IF ~f.found THEN Refused(db, 404, f.detail)
        ELSE IF ~table.readable THEN Refused(db, 500, "Could not read Excel file")
        ELSE IF ~(required \subseteq columns)
             THEN Refused(db, 500, "Could not read Excel file: 400: " \o MissingColumns(columns))
        ELSE LET scope == db[project_id].scopes[f.i]
             IN  Outcome(WithScope(db, project_id, f.i,
                                   [scope EXCEPT !.estimate_data = @ \o LineItems(table.rows)]),
                         TRUE, 200, "", 0)

upload_estimate(db, project_id, scope_id, table) ==
    LET f == find_scope(db, project_id, scope_id)
        columns == { Strip(col) : col \in table.columns }
    IN  IF ~f.found THEN Refused(db, 404, f.detail)
        ELSE IF ~table.readable THEN Refused(db, 500, "Could not read Excel file")
        ELSE IF ~(required \subseteq columns)
             \* the HTTPException(400) is raised inside the try and caught by
             \* `except Exception`, which answers 500 with str(e) in its detail
             THEN Refused(db, 500, "Could not read Excel file: 400: " \o MissingColumns(columns))
        ELSE LET scope == db[project_id].scopes[f.i]
             IN  Outcome(WithScope(db, project_id, f.i,
                                   [scope EXCEPT !.estimate_data = LineItems(table.rows)]),
                         TRUE, 200, "", 0)

\* OutOfRange without the lower bound: not (item_index < len(...))
OutOfRangeNoLowerBound(item_index, len) == ~(item_index < len)

\* not (0 <= item_index < len(scope["estimate_data"]))
OutOfRange(item_index, len) == ~(0 <= item_index /\ item_index < len)

\* scope["estimate_data"][item_index]: a negative index counts from the end, and
\* an index that is no position raises IndexError
IsPosition(item_index, len) == 0 - len <= item_index /\ item_index < len

\* PyIndex counting every index from the end of the list
PyIndexFromEnd(item_index, len) == IF item_index < 0 THEN len + item_index + 1 ELSE len - item_index

PyIndex(item_index, len) == IF item_index < 0 THEN len + item_index + 1 ELSE item_index + 1

\* item["unitPrice"] = unit_price
SetUnitPrice(item, unit_price) == Put(item, "unitPrice", unit_price)

\* item["total"] = item.get("Quantity", 0) * unit_price, for a numeric Quantity
SetTotal(item, unit_price) == Put(item, "total", item.Quantity[2] * unit_price)

update_price(db, project_id, scope_id, item_index, unit_price) ==
    LET f == find_scope(db, project_id, scope_id)
    IN  IF ~f.found THEN Refused(db, 404, f.detail)
        ELSE LET scope == db[project_id].scopes[f.i]
                 items == scope.estimate_data
             IN  IF OutOfRange(item_index, Len(items))
                 THEN Refused(db, 400, "Item index out of range")
                 ELSE IF ~IsPosition(item_index, Len(items))
                 THEN Refused(db, 500, "Internal Server Error")
                 ELSE LET at == PyIndex(item_index, Len(items))
                          item == items[at]
                          priced == SetUnitPrice(item, unit_price)
                          with(it) == WithScope(db, project_id, f.i,
                                         [scope EXCEPT !.estimate_data[at] = it])
                      IN  IF IsNum(item.Quantity)
                          THEN Outcome(with(SetTotal(priced, unit_price)), TRUE, 200, "", 0)
                          \* str * float raises TypeError after unitPrice was stored
                          ELSE Refused(with(priced), 500, "Internal Server Error")

\* item.get("Quantity", 0) > 0 and "total" in item
IsPriced(item) == item.Quantity[2] > 0 /\ Has(item, "total")

\* run: how the call of get_ai_estimate_analysis goes, if it is made
analyze_estimate(db, project_id, scope_id, run) ==
    LET f == find_scope(db, project_id, scope_id)
    IN  IF ~f.found THEN Refused(db, 404, f.detail)
        ELSE LET scope == db[project_id].scopes[f.i]
                 items == scope.estimate_data
                 priced_items == SelectSeq(items, IsPriced)
             IN  \* str > int raises TypeError in the list comprehension
                 IF \E j \in 1..Len(items) : ~IsNum(items[j].Quantity)
                 THEN Refused(db, 500, "Internal Server Error")
                 ELSE IF priced_items = <<>>
                 THEN Refused(db, 400, "No priced items with quantities found to analyze.")
                 ELSE IF run.exc # "none"
                 THEN [Refused(db, 500, "Internal Server Error")
                          EXCEPT !.client = Called("items", run)]
                 ELSE [Outcome(WithScope(db, project_id, f.i,
                                         [scope EXCEPT !.estimate_analysis = run.value]),
                               TRUE, 200, "", 0)
                          EXCEPT !.client = Called("items", run)]

----------------------------------------------------------------------------
(* Spec: the requests, each handler one action *)

Ids == 1..MaxIds

Prices == 0..MaxPrice

\* a request: the parameters the handlers take
Request(project_id, scope_id, item_index, unit_price, table) ==
    [project_id |-> project_id, scope_id |-> scope_id, item_index |-> item_index,
     unit_price |-> unit_price, table |-> table]

NoTable == [readable |-> FALSE, columns |-> {}, rows |-> <<>>]

NoRequest == Request(0, 0, 0, 0, NoTable)

\* the last exchange: the handler, the status and detail of its answer (status 0:
\* no answer was sent), the request, kept unless the answer is a 404, and the use
\* the handler made of the AI client
Response(op, code, detail, req, client) ==
    [op |-> op, code |-> code, detail |-> detail,
     req |-> IF code \in {0, 404} THEN NoRequest ELSE req,
     client |-> client]

\* the handler ran to its end: an exception of save_db escapes every handler but
\* upload_estimate, whose `except Exception` answers 500 itself
Serve(op, res, req) ==
    LET failed == res.saves /\ ~Serializable(res.db)
        ok == res.code = 200 /\ ~failed
    IN  /\ projects_db' = res.db
        /\ disk' = IF res.saves THEN save_db(res.db) ELSE disk
        /\ resp' = IF ~failed THEN Response(op, res.code, res.detail, req, res.client)
                   ELSE IF op = "upload_estimate"
                        THEN Response(op, 500, "Could not read Excel file", req, res.client)
                        ELSE Response(op, 500, "Internal Server Error", req, res.client)
        /\ acked' = IF ok THEN res.db ELSE acked
        /\ deleted' = IF ok /\ op = "delete_project"
                      THEN deleted \cup {req.project_id} ELSE deleted
        /\ uuid' = uuid + res.drew

\* the process dies inside save_db, after open(DB_FILE, "w") truncated the file and
\* before json.dump wrote it all, and is started again
Torn(op, res) ==
    /\ res.saves
    /\ disk' = TornFile
    /\ projects_db' = load_db(TornFile, EmptyDict)
    /\ resp' = Response(op, 0, "process died in save_db", NoRequest, NoClient)
    /\ uuid' = uuid + res.drew
    /\ UNCHANGED <<acked, deleted>>

Handle(op, res, req) ==
    /\ served < MaxRequests
    /\ served' = served + 1
    /\ \/ Serve(op, res, req)
       \/ Torn(op, res)
    /\ UNCHANGED <<call, ai, loopVars>>

CreateProject ==
    /\ uuid < MaxIds
    /\ Handle("create_project", create_project(projects_db, uuid + 1, "Acme Tower"),
              Request(uuid + 1, 0, 0, 0, NoTable))

AddScope ==
    /\ uuid < MaxIds
    /\ \E project_id \in Ids, pdf \in Pdfs, run \in SpecRuns :
           Handle("add_scope",
                  add_scope_to_project(projects_db, project_id, uuid + 1, pdf, run),
                  Request(project_id, uuid + 1, 0, 0, NoTable))

DeleteProject ==
    \E project_id \in Ids :
        Handle("delete_project", delete_project(projects_db, project_id),
               Request(project_id, 0, 0, 0, NoTable))

UploadEstimate ==
    \E project_id \in Ids, scope_id \in Ids, table \in Tables :
        Handle("upload_estimate",
               upload_estimate(projects_db, project_id, scope_id, table),
               Request(project_id, scope_id, 0, 0, table))

UpdatePrice ==
    \E project_id \in Ids, scope_id \in Ids, item_index \in (0 - 1)..MaxRows,
       unit_price \in Prices :
        Handle("update_price",
               update_price(projects_db, project_id, scope_id, item_index, unit_price),
               Request(project_id, scope_id, item_index, unit_price, NoTable))

AnalyzeEstimate ==
    \E project_id \in Ids, scope_id \in Ids, run \in AnalysisRuns :
        Handle("analyze_estimate",
               analyze_estimate(projects_db, project_id, scope_id, run),
               Request(project_id, scope_id, 0, 0, NoTable))

\* the process stops between two requests and is started again: startup_event
Restart ==
    /\ projects_db' = load_db(disk, EmptyDict)
    /\ resp' = Response("startup", 0, "", NoRequest, NoClient)
    /\ UNCHANGED <<call, ai, disk, uuid, served, acked, deleted, loopVars>>

\* the snapshot an earlier run of the process left behind: one project with one
\* scope whose spec was extracted, made by the handlers themselves
SeedDb ==
    LET run == get_ai_spec_summary(_call_gemini_api_with_retry(<<Answer(200)>>), "schema")
        created == create_project(EmptyDict, 1, "Acme Tower").db
    IN  add_scope_to_project(created, 1, 2, "text", run).db

\* the process starts (load_db) on no DB_FILE, or on the snapshot of an earlier run
Init ==
    /\ call = RetryIdle
    /\ ai = AiIdle
    /\ \E file \in {Missing, Json(SeedDb)} :
           /\ disk = file
           /\ projects_db = load_db(file, EmptyDict)
           /\ acked = load_db(file, EmptyDict)
           /\ uuid = IF file = Missing THEN 0 ELSE 2
    /\ served = 0
    /\ resp = Response("startup", 0, "", NoRequest, NoClient)
    /\ deleted = {}
    /\ tasks = <<>>
    /\ running = 0

Next ==
    \/ CreateProject
    \/ AddScope
    \/ DeleteProject
    \/ UploadEstimate
    \/ UpdatePrice
    \/ AnalyzeEstimate
    \/ Restart

Spec == Init /\ [][Next]_vars

NextRetry ==
    \/ HelperCall
    \/ RetryAttempt
    \/ HelperReturn
    \/ HelperExit

SpecRetry == Init /\ [][NextRetry]_vars

----------------------------------------------------------------------------
(* SpecLoop: requests submitted together, run on the event loop of one process. *)
(* Every request is a coroutine; the loop runs one coroutine at a time and      *)
(* takes another only when the one it runs awaits or returns.  The handler      *)
(* bodies are taken one group of statements per step.                           *)

TaskIds == 1..MaxTasks

\* the table before the requests: projects 1 and 3, each with one scope (2 and 4)
\* holding one priced line item, made by the handlers themselves
LoopDb ==
    LET run == get_ai_spec_summary(_call_gemini_api_with_retry(<<Answer(200)>>), "schema")
        table == [readable |-> TRUE, columns |-> required, rows |-> <<Row("a", Num(2), "LF")>>]
        p1 == create_project(EmptyDict, 1, "Acme Tower").db
        s2 == add_scope_to_project(p1, 1, 2, "text", run).db
        p3 == create_project(s2, 3, "Acme Tower").db
        s4 == add_scope_to_project(p3, 3, 4, "text", run).db
        u2 == upload_estimate(s4, 1, 2, table).db
        u4 == upload_estimate(u2, 3, 4, table).db
        q2 == update_price(u4, 1, 2, 0, 1).db
    IN  update_price(q2, 3, 4, 0, 1).db

LoopOps == {"add_scope", "analyze_estimate", "delete_project", "update_price"}

\* the run of an AI helper that returned value
Returned(value) == [exc |-> "none", value |-> value, posts |-> 0]

\* a request as submitted, with the locals of its handler: the scope found (i), the
\* text of the PDF, the call in progress and what the AI helper returned;
\* update_price sets the price of item 0 to 0
Submitted(op, project_id) ==
    [op |-> op, project_id |-> project_id, scope_id |-> project_id + 1,
     pc |-> "submitted", i |-> 0, pdf |-> "none", call |-> RetryIdle,
     returned |-> EmptyDict, code |-> 0, stale |-> FALSE]

LoopRequests == { Submitted(op, project_id) : op \in LoopOps, project_id \in {1, 3} }

\* the statements of a handler body at which the coroutine awaits, as if the AI
\* call were `await`ed
SuspendsAtAiCall(pc) == pc = "ai"

\* the statements of a handler body at which the coroutine awaits: the bodies of
\* the `async def` handlers contain no await
Suspends(pc) == FALSE

\* the event loop can run the next statements of coroutine t
CanStep(t) ==
    /\ tasks[t].pc # "done"
    /\ \/ running = t
       \/ running = 0 /\ (tasks[t].pc = "submitted" \/ Suspends(tasks[t].pc))

\* coroutine t ran up to the state next; the loop keeps it unless it awaits or ended
Advance(t, next) ==
    /\ tasks' = [tasks EXCEPT ![t] = next]
    /\ running' = IF next.pc = "done" \/ Suspends(next.pc) THEN 0 ELSE t
    /\ UNCHANGED <<call, ai, resp, served, acked, deleted>>

Ends(task, code) == [task EXCEPT !.pc = "done", !.code = code, !.call = RetryIdle]

\* the handler is entered: its lookups and validations, up to the first statement
\* that reads the upload, calls the AI helper or changes the table
LoopStart(t) ==
    LET task == tasks[t]
        f == find_scope(projects_db, task.project_id, task.scope_id)
        items == projects_db[task.project_id].scopes[f.i].estimate_data
        next ==
            CASE task.op = "add_scope" ->
                     IF ~Has(projects_db, task.project_id) THEN Ends(task, 404)
                     ELSE [task EXCEPT !.pc = "extract"]
              [] task.op = "delete_project" ->
                     IF ~Has(projects_db, task.project_id) THEN Ends(task, 404)
                     ELSE [task EXCEPT !.pc = "mutate"]
              [] task.op = "update_price" ->
                     IF ~f.found THEN Ends(task, 404)
                     ELSE IF OutOfRange(0, Len(items)) THEN Ends(task, 400)
                     ELSE [task EXCEPT !.pc = "mutate", !.i = f.i]
              [] OTHER ->
                     IF ~f.found THEN Ends(task, 404)
                     ELSE IF \E j \in 1..Len(items) : ~IsNum(items[j].Quantity)
                     THEN Ends(task, 500)
                     ELSE IF SelectSeq(items, IsPriced) = <<>> THEN Ends(task, 400)
                     ELSE [task EXCEPT !.pc = "ai", !.i = f.i, !.call = RetryStart]
    IN  /\ tasks[t].pc = "submitted"
        /\ CanStep(t)
        /\ Advance(t, next)
        /\ UNCHANGED <<projects_db, disk, uuid>>

\* add_scope_to_project reads the PDF (lines 210-216)
LoopExtract(t) ==
    /\ tasks[t].pc = "extract"
    /\ CanStep(t)
    /\ \E pdf \in Pdfs :
           Advance(t, IF pdf # "unreadable" /\ HasText(pdf)
                      THEN [tasks[t] EXCEPT !.pc = "ai", !.pdf = pdf, !.call = RetryStart]
                      ELSE [tasks[t] EXCEPT !.pc = "mutate", !.pdf = pdf])
    /\ UNCHANGED <<projects_db, disk, uuid>>

\* one iteration of the loop of _call_gemini_api_with_retry, its sleep included
\* (the locals of the call are kept, the record of past outcomes is not)
LoopPost(t) ==
    /\ tasks[t].pc = "ai"
    /\ tasks[t].call.pc = "loop"
    /\ CanStep(t)
    /\ \E o \in Outcomes :
           Advance(t, [tasks[t] EXCEPT !.call = [RetryStep(@, o) EXCEPT !.history = <<>>]])
    /\ UNCHANGED <<projects_db, disk, uuid>>

\* the AI helper returns, after the call returned or raised
LoopParse(t) ==
    /\ tasks[t].pc = "ai"
    /\ tasks[t].call.pc \in {"returned", "raised"}
    /\ CanStep(t)
    /\ \E body \in Bodies :
           LET run == IF tasks[t].op = "add_scope"
                      THEN get_ai_spec_summary(tasks[t].call, body)
                      ELSE get_ai_estimate_analysis(tasks[t].call, body)
           IN  Advance(t, IF run.exc # "none" THEN Ends(tasks[t], 500)
                          ELSE [tasks[t] EXCEPT !.pc = "mutate", !.returned = run.value,
                                                !.call = RetryIdle])
    /\ UNCHANGED <<projects_db, disk, uuid>>

\* the statements of the handler that change the table, up to its save_db.  The
\* scope analyze_estimate and update_price found is an object: it is in the table
\* as long as its project is
LoopMutate(t) ==
    LET task == tasks[t]
        id == task.project_id
        present == Has(projects_db, id)
        priced == update_price(projects_db, id, task.scope_id, 0, 0)
        db == CASE ~present -> projects_db
                [] task.op = "add_scope" ->
                       add_scope_to_project(projects_db, id, uuid + 1, task.pdf,
                                            Returned(task.returned)).db
                [] task.op = "delete_project" -> delete_project(projects_db, id).db
                [] task.op = "update_price" -> priced.db
                [] OTHER ->
                       WithScope(projects_db, id, task.i,
                                 [projects_db[id].scopes[task.i]
                                     EXCEPT !.estimate_analysis = task.returned])
        next == CASE task.op \in {"add_scope", "delete_project"} /\ ~present ->
                         \* KeyError at line 223 or line 231
                         Ends(task, 500)
                  [] task.op \in {"analyze_estimate", "update_price"} /\ ~present ->
                         [task EXCEPT !.pc = "save", !.stale = TRUE]
                  [] task.op = "update_price" /\ priced.code # 200 -> Ends(task, priced.code)
                  [] OTHER -> [task EXCEPT !.pc = "save"]
    IN  /\ task.pc = "mutate"
        /\ CanStep(t)
        /\ Advance(t, next)
        /\ projects_db' = db
        /\ uuid' = IF task.op = "add_scope" THEN uuid + 1 ELSE uuid
        /\ UNCHANGED disk

\* save_db and the return of the handler
LoopSave(t) ==
    /\ tasks[t].pc = "save"
    /\ CanStep(t)
    /\ disk' = save_db(projects_db)
    /\ Advance(t, Ends(tasks[t], IF Serializable(projects_db) THEN 200 ELSE 500))
    /\ UNCHANGED <<projects_db, uuid>>

InitLoop ==
    /\ call = RetryIdle
    /\ ai = AiIdle
    /\ projects_db = LoopDb
    /\ disk = Json(LoopDb)
    /\ acked = LoopDb
    /\ uuid = 4
    /\ served = 0
    /\ resp = Response("startup", 0, "", NoRequest, NoClient)
    /\ deleted = {}
    /\ tasks \in [TaskIds -> LoopRequests]
    /\ running = 0

NextLoop ==
    \/ \E t \in TaskIds : LoopStart(t)
    \/ \E t \in TaskIds : LoopExtract(t)
    \/ \E t \in TaskIds : LoopPost(t)
    \/ \E t \in TaskIds : LoopParse(t)
    \/ \E t \in TaskIds : LoopMutate(t)
    \/ \E t \in TaskIds : LoopSave(t)

SpecLoop == InitLoop /\ [][NextLoop]_vars

----------------------------------------------------------------------------
(* Properties of the call-with-retry primitive and the AI helpers (SpecRetry) *)

Is5xx(o) == o.kind = "response" /\ o.status >= 500

Ended == call.pc \in {"returned", "raised"}

\* C1: one call of the primitive posts at most 3 times; a response that is not 5xx
\* ends the call at once and is the value returned; when every attempt answered
\* 5xx the call made exactly 3 posts and returns the third response.
C1_RetryReturnsFirstNon5xx ==
    /\ call.calls <= retries
    /\ call.calls = Len(call.history)
    /\ \A k \in 1..Len(call.history) :
           (call.history[k].kind = "response" /\ ~Is5xx(call.history[k]))
               => /\ k = call.calls
                  /\ call.pc = "returned"
                  /\ call.response = [status |-> call.history[k].status, seq |-> k]
    /\ (Ended /\ \A k \in 1..Len(call.history) : Is5xx(call.history[k]))
           => /\ call.calls = 3
              /\ call.pc = "returned"
              /\ call.response = [status |-> call.history[3].status, seq |-> 3]

\* C1 witness: 503, 503, 200 gave three posts and the 200
C1_Witness ==
    /\ call.pc = "returned"
    /\ call.history = <<Answer(503), Answer(503), Answer(200)>>
    /\ call.response = [status |-> 200, seq |-> 3]

\* C2: the call raises exactly when the third post raised a transport fault; a fault
\* of post 1 or 2 is followed by another attempt; and a call that returns returns a
\* response some post of this call received.
C2_FaultRaisedOnlyOnLastAttempt ==
    /\ (call.pc = "raised")
           <=> (call.calls = retries /\ call.history[retries] = Fault /\ call.pc # "idle")
    /\ \A k \in 1..Len(call.history) :
           (call.history[k] = Fault /\ k < retries)
               => (k < call.calls \/ call.pc = "loop")
    /\ call.pc = "loop" => call.calls < retries
    /\ call.pc = "returned"
           => /\ call.response.seq \in 1..call.calls
              /\ call.history[call.response.seq] = Answer(call.response.status)

\* C2 witness: a 5xx, a fault and a fault on the last attempt, which is raised
C2_Witness ==
    /\ call.pc = "raised"
    /\ call.history = <<Answer(503), Fault, Fault>>

IsFailureMarker(v) == DOMAIN v = {"error"}

Parseable == {"schema", "other_shape", "data_and_error"}

C15_Retried(o) == Is5xx(o) \/ o = Fault

\* C15: within one call the k-th wait lasts 2^(k-1) seconds (1, then 2, ...),
\* whatever mix of 5xx answers and transport faults caused the waits.
C15_BackoffDoubles ==
    /\ \A k \in 1..Len(call.sleeps) : call.sleeps[k] = 2 ^ (k - 1)
    /\ call.backoff_factor = 2 ^ Len(call.sleeps)
    /\ \A k \in 1..Len(call.sleeps) : C15_Retried(call.history[k])

\* C15 witness: a transport fault and then a 5xx answer caused waits of 1 and 2
C15_Witness ==
    /\ call.history = <<Fault, Answer(503)>>
    /\ call.sleeps = <<1, 2>>
    /\ call.pc = "loop"

\* C16: every wait is followed by another post: a call that has ended made more
\* posts than waits, so it waited at most twice, whether its third attempt ended in
\* a 5xx answer or in a transport fault.
C16_NoWaitAfterLastAttempt ==
    /\ Len(call.sleeps) <= retries - 1
    /\ Ended => Len(call.sleeps) < call.calls

----------------------------------------------------------------------------
(* Properties of the project table and the handlers (Spec) *)

ScopesOf(db) == UNION { { db[p].scopes[i] : i \in 1..Len(db[p].scopes) } : p \in DOMAIN db }

SpecSchema == {"project_name", "spec_section", "addendum", "material_systems"}

IsSpecPayload(v) == DOMAIN v # {} /\ DOMAIN v \subseteq SpecSchema

\* C4: the extraction result of every scope is either a payload of the documented
\* schema or a failure marker, never something else and never both.
C4_ExtractionResultTagged ==
    \A scope \in ScopesOf(projects_db) :
        IsSpecPayload(scope.ai_summary) # IsFailureMarker(scope.ai_summary)

\* C5: when a mutating request has answered 200 the snapshot is the table in
\* memory, and a restart of the process (one that did not die while writing)
\* brings back the table as the last successful request left it.
C5_RestartRestoresLastSuccess ==
    /\ resp.code = 200 => disk = Json(projects_db)
    /\ (resp.op = "startup" /\ disk.kind # "torn") => projects_db = acked

\* C6: when the process dies inside persist, the snapshot is a complete document,
\* and the restarted process does not come up empty although requests had been
\* acknowledged (unless the dying request was emptying the table).
C6_PersistIsAtomic ==
    resp.detail = "process died in save_db"
        => /\ disk.kind = "json"
           /\ (acked # EmptyDict /\ resp.op # "delete_project") => projects_db # EmptyDict

\* C7: a project whose delete_project answered 200 is absent ever after: not in
\* get_projects, 404 from get_project_details and from find_scope for every scope
\* id; delete_project of an absent id answers 404 and changes neither the table
\* nor the snapshot.
C7_DeletedStaysAbsent ==
    /\ [](\A id \in deleted :
            /\ id \notin { e.id : e \in get_projects(projects_db) }
            /\ get_project_details(projects_db, id).code = 404
            /\ \A s \in Ids :
                   LET f == find_scope(projects_db, id, s)
                   IN  ~f.found /\ f.detail = "Project not found")
    /\ [](\A id \in Ids \ DOMAIN projects_db :
            delete_project(projects_db, id) = Refused(projects_db, 404, "Project not found"))
    /\ [][(resp'.op = "delete_project" /\ resp'.code = 404)
              => (projects_db' = projects_db /\ disk' = disk)]_vars

\* C7 witness: project 1 of the snapshot (owner of scope 2) was deleted and a later
\* request created another project
C7_Witness ==
    /\ 1 \in deleted
    /\ resp.op = "create_project"
    /\ resp.code = 200
    /\ ~find_scope(projects_db, 1, 2).found

C8_Kept(rows) == SelectSeq(rows, LAMBDA r : r.Description \notin {NaN, ""})

\* C8: after upload_estimate answered 200 the addressed scope holds exactly the rows
\* of the uploaded table whose Description is not empty, in the table's order, each
\* with its description, quantity (0 if missing) and unit only.
C8_UploadReplacesLineItems ==
    (resp.op = "upload_estimate" /\ resp.code = 200)
        => LET f == find_scope(projects_db, resp.req.project_id, resp.req.scope_id)
               kept == C8_Kept(resp.req.table.rows)
           IN  /\ f.found
               /\ LET items == projects_db[resp.req.project_id].scopes[f.i].estimate_data
                  IN  /\ Len(items) = Len(kept)
                      /\ \A i \in 1..Len(items) :
                             /\ DOMAIN items[i] = {"Description", "Quantity", "UOM"}
                             /\ items[i].Description = kept[i].Description
                             /\ items[i].Quantity = IF kept[i].Quantity = NaNQty
                                                    THEN Num(0) ELSE kept[i].Quantity
                             /\ items[i].UOM = IF kept[i].Size = NaN
                                               THEN "" ELSE kept[i].Size

\* C8 witness: a table of three rows, the middle one without Description, loaded as
\* the third request of the run
C8_Witness ==
    /\ resp.op = "upload_estimate"
    /\ resp.code = 200
    /\ served = 3
    /\ resp.req.table.rows = <<Row("b", NaNQty, NaN), Row(NaN, Num(2), "LF")>>
    /\ Len(projects_db[resp.req.project_id].scopes[1].estimate_data) = 1

\* C9: every line item has a total exactly when it has a unit price, and the total
\* is quantity times unit price.
C9_TotalIffUnitPrice ==
    \A item \in AllItems(projects_db) :
        /\ Has(item, "total") <=> Has(item, "unitPrice")
        /\ (Has(item, "total") /\ Has(item, "unitPrice") /\ IsNum(item.Quantity))
               => item.total = item.Quantity[2] * item.unitPrice

\* C10: update_price on an existing scope with an index below 0 or at or above the
\* length of the line-item list answers 400 "Item index out of range" and changes
\* neither the table nor the snapshot.
C10_OutOfRangeRejected ==
    [][LET req == resp'.req
           f == find_scope(projects_db, req.project_id, req.scope_id)
       IN  (/\ resp'.op = "update_price"
            /\ f.found
            /\ \/ req.item_index < 0
               \/ req.item_index >=
                      Len(projects_db[req.project_id].scopes[f.i].estimate_data))
               => /\ resp'.code = 400
                  /\ resp'.detail = "Item index out of range"
                  /\ projects_db' = projects_db
                  /\ disk' = disk]_vars

\* C10 witness: index = length of a list that is not empty was answered 400
C10_Witness ==
    /\ resp.op = "update_price"
    /\ resp.code = 400
    /\ LET f == find_scope(projects_db, resp.req.project_id, resp.req.scope_id)
       IN  /\ f.found
           /\ LET items == projects_db[resp.req.project_id].scopes[f.i].estimate_data
              IN  Len(items) > 0 /\ resp.req.item_index = Len(items)

\* the line items of a scope among which analyze_estimate finds nothing to analyze:
\* no item has both a quantity above 0 and a total
C11_NothingPriced(items) ==
    \A j \in 1..Len(items) :
        ~(IsNum(items[j].Quantity) /\ items[j].Quantity[2] > 0 /\ Has(items[j], "total"))

\* C11: analyze_estimate on a scope none of whose line items has both a quantity
\* above 0 and a total answers 400, makes no call of the AI client and changes
\* neither the table (the stored analysis included) nor the snapshot.
C11_AnalyzeNothingPricedRejected ==
    [][LET req == resp'.req
           f == find_scope(projects_db, req.project_id, req.scope_id)
       IN  (/\ resp'.op = "analyze_estimate"
            /\ f.found
            /\ C11_NothingPriced(projects_db[req.project_id].scopes[f.i].estimate_data))
               => /\ resp'.code = 400
                  /\ resp'.client.posts = 0
                  /\ projects_db' = projects_db
                  /\ disk' = disk]_vars

C12_Stripped(table) == { Strip(col) : col \in table.columns }

\* C12: upload_estimate, on an existing scope, of a table without one of the columns
\* Description, Quantity, Size answers 400 (as the range error of update_price does,
\* not 500) with a detail naming exactly the missing columns, and changes neither the
\* table nor the snapshot.
C12_MissingColumnsRejected ==
    [][LET req == resp'.req
           f == find_scope(projects_db, req.project_id, req.scope_id)
       IN  (/\ resp'.op = "upload_estimate"
            /\ f.found
            /\ req.table.readable
            /\ ~(required \subseteq C12_Stripped(req.table)))
               => /\ resp'.code = 400
                  /\ resp'.detail = MissingColumns(C12_Stripped(req.table))
                  /\ projects_db' = projects_db
                  /\ disk' = disk]_vars

\* C13: add_scope on an existing project answers 200 and appends exactly one scope,
\* with no line items and no analysis, at the end of the project's scopes, whatever
\* the text extraction and the AI call did; a failure of either is the failure
\* marker of the new scope; on an absent project it answers 404 and changes neither
\* the table nor the snapshot.
C13_AddScopeAlwaysAppends ==
    [][resp'.op = "add_scope"
         => LET req == resp'.req
                id == req.project_id
            IN  /\ resp'.code \notin {0, 404} => Has(projects_db, id)
                /\ resp'.code = 404 => (projects_db' = projects_db /\ disk' = disk)
                /\ Has(projects_db, id)
                     => /\ resp'.code = 200
                        /\ DOMAIN projects_db' = DOMAIN projects_db
                        /\ \A p \in DOMAIN projects_db \ {id} : projects_db'[p] = projects_db[p]
                        /\ LET before == projects_db[id].scopes
                               after == projects_db'[id].scopes
                               new == after[Len(after)]
                           IN  /\ Len(after) = Len(before) + 1
                               /\ SubSeq(after, 1, Len(before)) = before
                               /\ new.scope_id = req.scope_id
                               /\ new.estimate_data = <<>>
                               /\ new.estimate_analysis = EmptyDict
                               /\ resp'.client.text = "unreadable"
                                     => IsFailureMarker(new.ai_summary)
                               /\ (resp'.client.posts > 0
                                       /\ IsFailureMarker(resp'.client.returned))
                                     => IsFailureMarker(new.ai_summary)]_vars

\* the scope add_scope_to_project appended for the last request
C14_NewScope ==
    LET scopes == projects_db[resp.req.project_id].scopes
    IN  scopes[Len(scopes)]

\* C14: add_scope calls the AI client exactly when the text extracted from the
\* document has a character that is not white space: on empty or white-space text
\* no post is made and the extraction result of the new scope is a failure marker;
\* on other text the extraction result is what the AI helper returned, verbatim.
C14_AiCalledIffText ==
    (resp.op = "add_scope" /\ resp.code \notin {0, 404})
        => /\ resp.client.posts > 0 <=> resp.client.text = "text"
           /\ resp.client.text \in {"empty", "whitespace"}
                  => /\ resp.client.posts = 0
                     /\ IsFailureMarker(C14_NewScope.ai_summary)
           /\ resp.client.text = "text"
                  => C14_NewScope.ai_summary = resp.client.returned

\* C14 witness: the document had text, the second post was answered 200 with a
\* payload of the schema, and the new scope carries that payload
C14_Witness ==
    /\ resp.op = "add_scope"
    /\ resp.code = 200
    /\ resp.client = [text |-> "text", posts |-> 2, returned |-> SpecPayload]
    /\ C14_NewScope.scope_id = resp.req.scope_id
    /\ C14_NewScope.ai_summary = SpecPayload

\* C19: every stored line item whose quantity is a number has a quantity of 0 or
\* more, whatever tables upload_estimate accepted and after every update_price.
C19_QuantityNonNegative ==
    \A item \in AllItems(projects_db) :
        IsNum(item.Quantity) => item.Quantity[2] >= 0

\* the handlers other than update_price and upload_estimate
C20_OtherOps == {"create_project", "add_scope", "delete_project", "analyze_estimate"}

\* the line items of every scope of db, by project and scope id
C20_ItemsOf(db) ==
    UNION { { <<p, db[p].scopes[i].scope_id, db[p].scopes[i].estimate_data>> :
                i \in 1..Len(db[p].scopes) } : p \in DOMAIN db }

\* C20: an update_price answered 200 changes only the unit price and the total of
\* the item at the given position of the given scope: the number and order of the
\* scope's items, the description, quantity and unit of each, the price and total of
\* every other item, the scope's other fields and every other scope and project stay
\* as they were; and a handler other than update_price and upload_estimate leaves
\* the line items of every scope it does not delete as they were.
C20_UpdatePriceFrame ==
    [][/\ (resp'.op = "update_price" /\ resp'.code = 200)
            => LET req == resp'.req
                   id == req.project_id
                   f == find_scope(projects_db, id, req.scope_id)
                   at == req.item_index + 1
               IN  /\ f.found
                   /\ DOMAIN projects_db' = DOMAIN projects_db
                   /\ \A p \in DOMAIN projects_db \ {id} : projects_db'[p] = projects_db[p]
                   /\ [projects_db'[id] EXCEPT !.scopes = <<>>]
                          = [projects_db[id] EXCEPT !.scopes = <<>>]
                   /\ Len(projects_db'[id].scopes) = Len(projects_db[id].scopes)
                   /\ \A i \in 1..Len(projects_db[id].scopes) :
                          i # f.i => projects_db'[id].scopes[i] = projects_db[id].scopes[i]
                   /\ LET before == projects_db[id].scopes[f.i]
                          after == projects_db'[id].scopes[f.i]
                      IN  /\ [after EXCEPT !.estimate_data = <<>>]
                                 = [before EXCEPT !.estimate_data = <<>>]
                          /\ Len(after.estimate_data) = Len(before.estimate_data)
                          /\ at \in 1..Len(before.estimate_data)
                          /\ \A j \in 1..Len(before.estimate_data) :
                                 IF j # at
                                 THEN after.estimate_data[j] = before.estimate_data[j]
                                 ELSE LET old == before.estimate_data[j]
                                          new == after.estimate_data[j]
                                      IN  /\ DOMAIN new = DOMAIN old \cup {"unitPrice", "total"}
                                          /\ \A k \in DOMAIN old \ {"unitPrice", "total"} :
                                                 new[k] = old[k]
                                          /\ new.unitPrice = req.unit_price
       /\ resp'.op \in C20_OtherOps
            => \A e \in C20_ItemsOf(projects_db) :
                   \A d \in C20_ItemsOf(projects_db') :
                       (d[1] = e[1] /\ d[2] = e[2]) => d[3] = e[3]]_vars

\* C20 witness: the second of two line items was priced and the first is still
\* without price and total
C20_Witness ==
    /\ resp.op = "update_price"
    /\ resp.code = 200
    /\ resp.req.item_index = 1
    /\ resp.req.unit_price = 1
    /\ LET f == find_scope(projects_db, resp.req.project_id, resp.req.scope_id)
       IN  /\ f.found
           /\ LET items == projects_db[resp.req.project_id].scopes[f.i].estimate_data
              IN  /\ Len(items) = 2
                  /\ ~Has(items[1], "unitPrice")
                  /\ ~Has(items[1], "total")
                  /\ items[2].unitPrice = 1
                  /\ items[2].total = items[2].Quantity[2]

----------------------------------------------------------------------------
(* Properties of the handlers on the event loop (SpecLoop) *)

\* coroutine t is inside its handler
C17_Mid(t) == tasks[t].pc \notin {"submitted", "done"}

\* the table and the uuid count after the handler of task ran alone, from start to
\* end, on state s
C17_Alone(s, task) ==
    LET res == CASE task.op = "add_scope" ->
                        add_scope_to_project(s.db, task.project_id, s.uuid + 1,
                                             task.pdf, Returned(task.returned))
                 [] task.op = "delete_project" -> delete_project(s.db, task.project_id)
                 [] task.op = "update_price" ->
                        update_price(s.db, task.project_id, task.scope_id, 0, 0)
                 [] OTHER ->
                        analyze_estimate(s.db, task.project_id, task.scope_id,
                                         Returned(task.returned))
    IN  [db |-> res.db, uuid |-> s.uuid + res.drew]

\* the handlers of the tasks of order run one after the other
RECURSIVE C17_Serial(_, _)
C17_Serial(s, order) ==
    IF order = <<>> THEN s
    ELSE C17_Serial(C17_Alone(s, tasks[Head(order)]), Tail(order))

\* the orders of the tasks that have changed the table or have returned
C17_Orders ==
    LET effective == { t \in TaskIds : tasks[t].pc \in {"save", "done"} }
    IN  { o \in [1..Cardinality(effective) -> effective] :
            \A i, j \in DOMAIN o : o[i] = o[j] => i = j }

\* C17: handlers do not interleave: while a coroutine is inside its handler, AI call
\* included, no other coroutine takes a step; the table is at every moment what
\* some serial order of the handlers that have acted gives; and no handler writes
\* to a scope whose project was deleted since the handler found it.
C17_HandlersDoNotInterleave ==
    /\ [](\A t, u \in TaskIds : (C17_Mid(t) /\ C17_Mid(u)) => t = u)
    /\ [](\E o \in C17_Orders :
              [db |-> projects_db, uuid |-> uuid]
                  = C17_Serial([db |-> LoopDb, uuid |-> 4], o))
    /\ [](\A t \in TaskIds : ~tasks[t].stale)
    /\ [][\A t \in TaskIds :
              C17_Mid(t) => \A u \in TaskIds \ {t} : tasks'[u] = tasks[u]]_vars

\* C17 witness: an add_scope on project 1 whose AI call ended with a third 503 and
\* a delete_project of project 1, submitted together, have both answered 200
C17_Witness ==
    /\ tasks[1].op = "add_scope"
    /\ tasks[1].project_id = 1
    /\ tasks[1].returned = ModelError(503)
    /\ tasks[1].code = 200
    /\ tasks[2].op = "delete_project"
    /\ tasks[2].project_id = 1
    /\ tasks[2].code = 200
    /\ ~Has(projects_db, 1)

\* C18: while the AI call of an add_scope or analyze_estimate is in flight, the
\* coroutine that made it does not hold the event loop, and a request on another
\* project that was submitted can be run.
C18_StoreFreeDuringAiCall ==
    \A t \in TaskIds :
        tasks[t].pc = "ai"
            => /\ running # t
               /\ \A u \in TaskIds :
                      (tasks[u].pc = "submitted" /\ tasks[u].project_id # tasks[t].project_id)
                          => CanStep(u)

====
